---- MODULE Spec2Model ----
(***************************************************************************)
(* Vemini frame/context pipeline: the server's FrameQueue                  *)
(* (src/backend/server.ts), the GeminiProcessor (src/utils/                *)
(* GeminiProcessor.ts) and the client's VideoFrameExtractor.               *)
(*                                                                         *)
(* Text is modelled as a sequence of tokens (one TLA+ string per token:    *)
(* a punctuation character, a whitespace character, a word or a number),   *)
(* and the regular expressions of extractAndCleanJson act on the token     *)
(* sequence the way they act on the characters.  Confidence values are     *)
(* kept in tenths (0.5 is 5).                                              *)
(***************************************************************************)
EXTENDS Integers, Sequences, FiniteSets, TLC

\* ------------------------------------------------------------------------
\* Tokens
\* ------------------------------------------------------------------------
LB == "{"
RB == "}"
LK == "["
RK == "]"
CM == ","
CL == ":"
QT == "\""
BS == "\\"
SL == "/"
SP == " "
NL == "\n"
FENCE == "FENCE"   \* the three-backquote markdown fence
ESC == "ESC"     \* inside a parsed string: the next token began an escape

IsWs(c) == c \in {SP, NL}

\* Number tokens and their value in tenths.
NumTokens == {"0", "0.5", "0.9", "1", "7"}

NumTenths(tok) ==
  CASE tok = "0" -> 0
    [] tok = "0.5" -> 5
    [] tok = "0.9" -> 9
    [] tok = "1" -> 10
    [] tok = "7" -> 70
    [] OTHER -> 0

\* The first character of a token (a one-character token is its own first
\* character).
FirstChar(tok) ==
  CASE tok \in {"null", "name", "near"} -> "n"
    [] tok = "undefined" -> "u"
    [] tok = "true" -> "t"
    [] tok \in {"false", "frame"} -> "f"
    [] tok = "book" -> "b"
    [] tok \in {"relationships", "relationship"} -> "r"
    [] tok \in {"objects", "object1", "object2", "on"} -> "o"
    [] tok \in {"cup", "confidence"} -> "c"
    [] tok \in {"json"} -> "j"
    [] tok \in {"actions", "analysis"} -> "a"
    [] tok \in {"sceneDescription", "scene"} -> "s"
    [] tok \in {"position"} -> "p"
    [] tok \in {"description"} -> "d"
    [] tok \in NumTokens -> "0"
    [] OTHER -> tok

MinOf(S) == CHOOSE j \in S : \A k \in S : j <= k

\* Index of the first non-whitespace token at or after i (Len(t)+1 if none).
SkipWs(t, i) ==
  LET S == {j \in i..Len(t) : ~IsWs(t[j])}
  IN IF S = {} THEN Len(t) + 1 ELSE MinOf(S)

\* ------------------------------------------------------------------------
\* JSON values (the result of JSON.parse), one record shape for every kind
\* ------------------------------------------------------------------------
JVal(kind, chars, tok, elems, members) ==
  [t |-> kind, s |-> chars, n |-> tok, a |-> elems, o |-> members]

JNull == JVal("null", <<>>, "", <<>>, <<>>)
JUndef == JVal("undefined", <<>>, "", <<>>, <<>>)
JTrue == JVal("true", <<>>, "", <<>>, <<>>)
JFalse == JVal("false", <<>>, "", <<>>, <<>>)
JNum(tok) == JVal("num", <<>>, tok, <<>>, <<>>)
JStr(chars) == JVal("str", chars, "", <<>>, <<>>)
JArr(elems) == JVal("arr", <<>>, "", elems, <<>>)
JObj(members) == JVal("obj", <<>>, "", <<>>, members)

ParseFail == [ok |-> FALSE, v |-> JNull, p |-> 0]
ParseOk(val, next) == [ok |-> TRUE, v |-> val, p |-> next]

\* Body(x), with x evaluated once.
Bind(x, Body(_)) == CHOOSE y \in {Body(v) : v \in {x}} : TRUE

RECURSIVE ParseChars(_, _, _)
RECURSIVE ParseValue(_, _)
RECURSIVE ParseMembers(_, _, _)
RECURSIVE ParseElems(_, _, _)

\* The characters of a string literal from position i (after the opening
\* quote) to the closing quote.
ParseChars(t, i, acc) ==
  IF i > Len(t) THEN ParseFail
  ELSE IF t[i] = QT THEN ParseOk(JStr(acc), i + 1)
  ELSE IF t[i] = NL THEN ParseFail
  ELSE IF t[i] = BS THEN
    IF i + 1 > Len(t) THEN ParseFail
    ELSE IF t[i + 1] \in {QT, BS, SL} THEN ParseChars(t, i + 2, Append(acc, t[i + 1]))
    ELSE IF FirstChar(t[i + 1]) \in {"b", "f", "n", "r", "t"}
      THEN ParseChars(t, i + 2, acc \o <<ESC, t[i + 1]>>)
    ELSE ParseFail
  ELSE ParseChars(t, i + 1, Append(acc, t[i]))

\* A value starting at the first non-whitespace token at or after i0.
ParseValue(t, i0) ==
  Bind(SkipWs(t, i0), LAMBDA i :
    IF i > Len(t) THEN ParseFail
    ELSE IF t[i] = LB THEN
      Bind(SkipWs(t, i + 1), LAMBDA j :
        IF j <= Len(t) /\ t[j] = RB THEN ParseOk(JObj(<<>>), j + 1)
        ELSE ParseMembers(t, i + 1, <<>>))
    ELSE IF t[i] = LK THEN
      Bind(SkipWs(t, i + 1), LAMBDA j :
        IF j <= Len(t) /\ t[j] = RK THEN ParseOk(JArr(<<>>), j + 1)
        ELSE ParseElems(t, i + 1, <<>>))
    ELSE IF t[i] = QT THEN ParseChars(t, i + 1, <<>>)
    ELSE IF t[i] \in NumTokens THEN ParseOk(JNum(t[i]), i + 1)
    ELSE IF t[i] = "null" THEN ParseOk(JNull, i + 1)
    ELSE IF t[i] = "true" THEN ParseOk(JTrue, i + 1)
    ELSE IF t[i] = "false" THEN ParseOk(JFalse, i + 1)
    ELSE ParseFail)

\* The members of an object from i0 on: "key" : value, separated by commas,
\* up to the closing brace.
ParseMembers(t, i0, acc) ==
  Bind(SkipWs(t, i0), LAMBDA i :
    IF i > Len(t) \/ t[i] # QT THEN ParseFail
    ELSE Bind(ParseChars(t, i + 1, <<>>), LAMBDA key :
      IF ~key.ok THEN ParseFail
      ELSE Bind(SkipWs(t, key.p), LAMBDA j :
        IF j > Len(t) \/ t[j] # CL THEN ParseFail
        ELSE Bind(ParseValue(t, j + 1), LAMBDA val :
          IF ~val.ok THEN ParseFail
          ELSE Bind(SkipWs(t, val.p), LAMBDA k :
            Bind(Append(acc, [k |-> key.v.s, v |-> val.v]), LAMBDA all :
              IF k > Len(t) THEN ParseFail
              ELSE IF t[k] = CM THEN ParseMembers(t, k + 1, all)
              ELSE IF t[k] = RB THEN ParseOk(JObj(all), k + 1)
              ELSE ParseFail))))))

\* The elements of an array from i0 on, up to the closing bracket.
ParseElems(t, i0, acc) ==
  Bind(ParseValue(t, i0), LAMBDA val :
    IF ~val.ok THEN ParseFail
    ELSE Bind(SkipWs(t, val.p), LAMBDA k :
      Bind(Append(acc, val.v), LAMBDA all :
        IF k > Len(t) THEN ParseFail
        ELSE IF t[k] = CM THEN ParseElems(t, k + 1, all)
        ELSE IF t[k] = RK THEN ParseOk(JArr(all), k + 1)
        ELSE ParseFail)))

\* JSON.parse: a value, then nothing but whitespace.  ok = FALSE is the
\* SyntaxError.
JSONparse(t) ==
  LET r == ParseValue(t, 1) IN
  IF r.ok /\ SkipWs(t, r.p) > Len(t) THEN [ok |-> TRUE, v |-> r.v]
  ELSE [ok |-> FALSE, v |-> JNull]

\* ------------------------------------------------------------------------
\* extractAndCleanJson: the regular expressions, on tokens
\* ------------------------------------------------------------------------
\* /```(?:json)?\n([\s\S]*?)\n```/ : where the captured group starts for a
\* fence at i (0: no opening here).
FenceContentStart(t, i) ==
  IF i + 2 <= Len(t) /\ t[i + 1] = "json" /\ t[i + 2] = NL THEN i + 3
  ELSE IF i + 1 <= Len(t) /\ t[i + 1] = NL THEN i + 2
  ELSE 0

\* The positions j >= cs where the closing "\n```" begins.
FenceCloses(t, cs) ==
  {j \in cs..(Len(t) - 1) : t[j] = NL /\ t[j + 1] = FENCE}

\* text.match(...): leftmost opening with a closing after it, lazy body.
FenceMatch(t) ==
  LET starts == {i \in 1..Len(t) :
                   /\ t[i] = FENCE
                   /\ FenceContentStart(t, i) # 0
                   /\ FenceCloses(t, FenceContentStart(t, i)) # {}}
  IN IF starts = {} THEN [found |-> FALSE, body |-> <<>>]
     ELSE LET cs == FenceContentStart(t, MinOf(starts))
          IN [found |-> TRUE, body |-> SubSeq(t, cs, MinOf(FenceCloses(t, cs)) - 1)]

\* String.prototype.trim
Trim(t) ==
  LET keep == {j \in 1..Len(t) : ~IsWs(t[j])}
  IN IF keep = {} THEN <<>>
     ELSE SubSeq(t, MinOf(keep), CHOOSE j \in keep : \A k \in keep : k <= j)

\* t without the tokens at the positions of drop.
DropAt(t, drop) ==
  Bind(SelectSeq([i \in 1..Len(t) |-> i], LAMBDA i : i \notin drop), LAMBDA keep :
    [k \in 1..Len(keep) |-> t[keep[k]]])

\* .replace(/\\([^"\\\/bfnrtu])/g, '$1'): the backslashes that go.  A
\* backslash is never the second character of a match, so the matches are
\* the same wherever the scan resumes.
StripBackslashes(t) ==
  DropAt(t, {i \in 1..(Len(t) - 1) :
               /\ t[i] = BS
               /\ FirstChar(t[i + 1]) \notin {QT, BS, SL, "b", "f", "n", "r", "t", "u"}})

\* .replace(/(head)\s*(tail)/g, ...): the match is replaced by its tail, or
\* by head and tail without the whitespace when keepHead.  No head is
\* whitespace or a tail, so matches do not overlap.
ReplaceAll(t, heads, tails, keepHead) ==
  Bind({i \in 1..Len(t) :
          /\ t[i] \in heads
          /\ SkipWs(t, i + 1) <= Len(t)
          /\ t[SkipWs(t, i + 1)] \in tails}, LAMBDA starts :
    DropAt(t, UNION {(IF keepHead THEN i + 1 ELSE i)..(SkipWs(t, i + 1) - 1) :
                       i \in starts}))

\* .replace(/undefined/g, 'null')
ReplaceUndefined(t) ==
  [i \in 1..Len(t) |-> IF t[i] = "undefined" THEN "null" ELSE t[i]]

\* The brace balancing of lines 231-236.
BalanceBraces(t) ==
  LET opened == IF t # <<>> /\ t[1] = LB THEN t ELSE <<LB>> \o t
  IN IF opened[Len(opened)] = RB THEN opened ELSE Append(opened, RB)

\* extractAndCleanJson.  Its catch branch is not reachable for a string
\* argument: match, trim, startsWith, endsWith and replace do not throw.
extractAndCleanJson(text) ==
  LET m == FenceMatch(text)
      jsonStr == BalanceBraces(Trim(IF m.found THEN m.body ELSE text))
  IN Bind(StripBackslashes(jsonStr), LAMBDA unescaped :
       Bind(ReplaceAll(unescaped, {CM}, {RB, RK}, FALSE), LAMBDA noTrailingCommas :
         Bind(ReplaceAll(noTrailingCommas, {LB, CM}, {RB}, FALSE), LAMBDA noEmptyTail :
           Bind(ReplaceAll(noEmptyTail, {LK}, {RK}, TRUE), LAMBDA emptyArrays :
             ReplaceUndefined(emptyArrays)))))

\* ------------------------------------------------------------------------
\* JavaScript coercions used by parseGeminiResponse
\* ------------------------------------------------------------------------
\* obj[key] for a parsed value that is not null (primitives and arrays have
\* none of the keys read here).
Get(v, key) ==
  LET hits == {i \in 1..Len(v.o) : v.o[i].k = <<key>>}
  IN IF v.t # "obj" \/ hits = {} THEN JUndef
     ELSE v.o[CHOOSE i \in hits : \A k \in hits : k <= i].v

Truthy(v) ==
  CASE v.t = "str" -> v.s # <<>>
    [] v.t = "num" -> NumTenths(v.n) # 0
    [] v.t \in {"true", "arr", "obj"} -> TRUE
    [] OTHER -> FALSE

RECURSIVE JSString(_)
RECURSIVE JoinArr(_, _)
\* String(v)
JSString(v) ==
  CASE v.t = "str" -> v.s
    [] v.t = "num" -> <<v.n>>
    [] v.t = "arr" -> JoinArr(v.a, 1)
    [] v.t = "obj" -> <<"[object Object]">>
    [] OTHER -> <<v.t>>

\* Array.prototype.join(','): null and undefined elements give ''.
JoinArr(a, i) ==
  IF i > Len(a) THEN <<>>
  ELSE (IF a[i].t \in {"null", "undefined"} THEN <<>> ELSE JSString(a[i]))
         \o (IF i < Len(a) THEN <<CM>> ELSE <<>>)
         \o JoinArr(a, i + 1)

\* Number(string), in tenths; nan for what is no number.
StrToNumber(chars) ==
  LET c == Trim(chars) IN
  IF c = <<>> THEN [nan |-> FALSE, val |-> 0]
  ELSE IF Len(c) = 1 /\ c[1] \in NumTokens THEN [nan |-> FALSE, val |-> NumTenths(c[1])]
  ELSE [nan |-> TRUE, val |-> 0]

\* Number(v), in tenths
JSNumber(v) ==
  CASE v.t = "num" -> [nan |-> FALSE, val |-> NumTenths(v.n)]
    [] v.t = "true" -> [nan |-> FALSE, val |-> 10]
    [] v.t \in {"false", "null"} -> [nan |-> FALSE, val |-> 0]
    [] v.t \in {"str", "arr"} -> StrToNumber(JSString(v))
    [] OTHER -> [nan |-> TRUE, val |-> 0]

\* Number(x) || 0.5
NumberOrHalf(v) ==
  LET n == JSNumber(v) IN IF n.nan \/ n.val = 0 THEN 5 ELSE n.val

\* String(x || fallback)
StringOr(v, fallback) == IF Truthy(v) THEN JSString(v) ELSE <<fallback>>

\* Array.isArray(x) ? x : []
ArrayOrEmpty(v) == IF v.t = "arr" THEN v.a ELSE <<>>

\* ------------------------------------------------------------------------
\* GeminiProcessor.parseGeminiResponse
\* ------------------------------------------------------------------------
FailedDescription == <<"Failed to analyze scene">>
NoDescription == <<"No description available">>

DegradedResult(currentTime) ==
  [objects |-> <<>>, actions |-> <<>>, sceneDescription |-> FailedDescription,
   relationships |-> <<>>, timestamp |-> currentTime]

ToObject(obj, currentTime) ==
  [name |-> StringOr(Get(obj, "name"), "Unknown Object"),
   position |-> IF Truthy(Get(obj, "position")) THEN Get(obj, "position") ELSE JUndef,
   confidence |-> NumberOrHalf(Get(obj, "confidence")),
   lastSeenAt |-> currentTime]

ToAction(action, currentTime) ==
  [description |-> StringOr(Get(action, "description"), "Unknown Action"),
   objects |-> Bind(ArrayOrEmpty(Get(action, "objects")), LAMBDA os :
                 [i \in 1..Len(os) |-> JSString(os[i])]),
   confidence |-> NumberOrHalf(Get(action, "confidence")),
   timestamp |-> currentTime]

ToRelationship(rel) ==
  [object1 |-> StringOr(Get(rel, "object1"), "Unknown Object"),
   object2 |-> StringOr(Get(rel, "object2"), "Unknown Object"),
   relationship |-> StringOr(Get(rel, "relationship"), "near")]

\* Reading a property of null is a TypeError.
HasNull(arr) == \E i \in 1..Len(arr) : arr[i].t = "null"

\* validatedResponse, lines 175-183.
Validated(parsed) ==
  [objects |-> ArrayOrEmpty(Get(parsed, "objects")),
   actions |-> ArrayOrEmpty(Get(parsed, "actions")),
   sceneDescription |-> Bind(Get(parsed, "sceneDescription"), LAMBDA d :
                          IF d.t = "str" THEN d.s ELSE NoDescription),
   relationships |-> ArrayOrEmpty(Get(parsed, "relationships"))]

\* The try block of parseGeminiResponse: thrown, or the value it returns.
TryParse(response, currentTime) ==
  Bind(JSONparse(extractAndCleanJson(response)), LAMBDA parsed :
    IF ~parsed.ok THEN [thrown |-> TRUE, value |-> DegradedResult(currentTime)]
    ELSE Bind(Validated(parsed.v), LAMBDA v :
      IF HasNull(v.objects) \/ HasNull(v.actions) \/ HasNull(v.relationships)
        THEN [thrown |-> TRUE, value |-> DegradedResult(currentTime)]
      ELSE [thrown |-> FALSE,
            value |->
              [objects |-> [i \in 1..Len(v.objects) |-> ToObject(v.objects[i], currentTime)],
               actions |-> [i \in 1..Len(v.actions) |-> ToAction(v.actions[i], currentTime)],
               sceneDescription |-> v.sceneDescription,
               relationships |-> [i \in 1..Len(v.relationships) |->
                                    ToRelationship(v.relationships[i])],
               timestamp |-> currentTime]]))

\* A variant without the catch branch: the exception leaves the function.
parseGeminiResponse_NoCatch(response, currentTime) ==
  Bind(TryParse(response, currentTime), LAMBDA r :
    [thrown |-> r.thrown, caught |-> FALSE, value |-> r.value])

\* parseGeminiResponse: thrown says whether an exception leaves it, caught
\* whether the catch branch produced the value.
parseGeminiResponse(response, currentTime) ==
  Bind(TryParse(response, currentTime), LAMBDA r :
    IF r.thrown
      THEN [thrown |-> FALSE, caught |-> TRUE, value |-> DegradedResult(currentTime)]
    ELSE [thrown |-> FALSE, caught |-> FALSE, value |-> r.value])

\* ------------------------------------------------------------------------
\* GeminiProcessor: context window and scene memory
\* ------------------------------------------------------------------------
MAX_CONTEXT_FRAMES == 5
OBJECT_MEMORY_DURATION == 10000
MaxRecentActions == 10

Undefined == <<"(undefined)">>     \* sceneDescription before the first merge

InitialContext ==
  [recentObjects |-> <<>>, recentActions |-> <<>>, sceneDescription |-> Undefined,
   lastProcessedTimestamp |-> 0, contextWindow |-> <<>>]

\* A variant that keeps the oldest n (slice(0, n) instead of slice(-n)).
LastN_Oldest(seq, n) ==
  IF Len(seq) <= n THEN seq ELSE SubSeq(seq, 1, n)

\* seq.slice(-n)
LastN(seq, n) ==
  IF Len(seq) <= n THEN seq ELSE SubSeq(seq, Len(seq) - n + 1, Len(seq))

\* A variant that evicts one frame too early (>= instead of >).
updateContextWindow_EvictEarly(ctx, frame) ==
  LET pushed == Append(ctx.contextWindow, frame)
  IN [ctx EXCEPT !.contextWindow =
        IF Len(pushed) >= MAX_CONTEXT_FRAMES THEN Tail(pushed) ELSE pushed]

updateContextWindow(ctx, frame) ==
  LET pushed == Append(ctx.contextWindow, frame)
  IN [ctx EXCEPT !.contextWindow =
        IF Len(pushed) > MAX_CONTEXT_FRAMES THEN Tail(pushed) ELSE pushed]

RECURSIVE MergeObjects_AlwaysPush(_, _, _, _)
\* A variant without the lookup by name: every object is pushed.
MergeObjects_AlwaysPush(recent, objs, i, currentTime) ==
  IF i > Len(objs) THEN recent
  ELSE MergeObjects_AlwaysPush(Append(recent, [objs[i] EXCEPT !.lastSeenAt = currentTime]),
                               objs, i + 1, currentTime)

RECURSIVE MergeObjects(_, _, _, _)
\* The forEach of lines 263-275.
MergeObjects(recent, objs, i, currentTime) ==
  IF i > Len(objs) THEN recent
  ELSE
    LET obj == objs[i]
        hits == {k \in 1..Len(recent) : recent[k].name = obj.name}
        next == IF hits # {}
                  THEN [recent EXCEPT ![MinOf(hits)] =
                          [name |-> obj.name, position |-> obj.position,
                           confidence |-> obj.confidence, lastSeenAt |-> currentTime]]
                ELSE Append(recent, [obj EXCEPT !.lastSeenAt = currentTime])
    IN MergeObjects(next, objs, i + 1, currentTime)

updateContext(ctx, analysis, currentTime) ==
  LET merged == MergeObjects(ctx.recentObjects, analysis.objects, 1, currentTime)
      stamped == [i \in 1..Len(analysis.actions) |->
                    [analysis.actions[i] EXCEPT !.timestamp = currentTime]]
      live(o) == currentTime - o.lastSeenAt < OBJECT_MEMORY_DURATION
  IN [ctx EXCEPT !.recentObjects = SelectSeq(merged, live),
                 !.recentActions = LastN(ctx.recentActions \o stamped, MaxRecentActions),
                 !.sceneDescription = analysis.sceneDescription,
                 !.lastProcessedTimestamp = currentTime]

\* The part of the context the spec calls Scene Memory.
SceneMemory(ctx) ==
  [objects |-> ctx.recentObjects, actions |-> ctx.recentActions,
   sceneDescription |-> ctx.sceneDescription,
   lastUpdated |-> ctx.lastProcessedTimestamp]

\* ------------------------------------------------------------------------
\* Inference outputs (response.text()) the model service may return
\* ------------------------------------------------------------------------
Quoted(word) == <<QT, word, QT>>
Member(key, val) == Quoted(key) \o <<CL>> \o val
Fenced(body) == <<FENCE, "json", NL>> \o body \o <<NL, FENCE>>

\* {"objects":[{"name":"cup","confidence":0.9}],"actions":[],
\*  "sceneDescription":"a cup","relationships":[]} in a json fence
RespCup ==
  Fenced(<<LB>> \o Member("objects",
                     <<LK, LB>> \o Member("name", Quoted("cup")) \o <<CM>>
                       \o Member("confidence", <<"0.9">>) \o <<RB, RK>>)
           \o <<CM>> \o Member("actions", <<LK, RK>>)
           \o <<CM>> \o Member("sceneDescription", <<QT, "a", SP, "cup", QT>>)
           \o <<CM>> \o Member("relationships", <<LK, RK>>) \o <<RB>>)

\* Prose without any JSON.
RespProse == <<"scene", SP, "analysis">>

Responses == {RespCup, RespProse}

\* ------------------------------------------------------------------------
\* server.ts: FrameQueue and the socket handlers
\* ------------------------------------------------------------------------
maxQueueSize == 10
processDelay == 500

Sockets == {"s1", "s2"}

TickMs == processDelay \div 2     \* granularity of the clock

\* Bounds of the three specifications of the server.
MaxFrames == 12          \* Spec: frames sent (enough to overflow the queue)
MaxTicks == 5            \* Spec: clock ticks
MaxFramesFlow == 4       \* SpecFlow: frames sent
MaxTicksFlow == 6        \* SpecFlow: clock ticks
MaxFramesWindow == 7     \* SpecWindow: frames sent (enough to overflow the window)
MaxTicksWindow == 12     \* SpecWindow: clock ticks

VARIABLES
  queue,        \* FrameQueue.queue
  processing,   \* FrameQueue.processing
  loops,        \* activations of processQueue past their first await
  context,      \* GeminiProcessor.context
  now,          \* Date.now()
  nextId,       \* arrival number of the next frame (its id)
  dequeued,     \* history: ids in the order processQueue shifted them
  completed,    \* history: ids in the order their processing finished
  completedAt,  \* history: time the last item finished (-1: none yet)
  lastOutcome,  \* history: how the last finished analysis ended
  lastMerged    \* history: id of the last frame merged into the context

qvars == <<queue, processing, loops, context, now, nextId, dequeued, completed,
           completedAt, lastOutcome, lastMerged>>

\* Variants of enqueue: one that never evicts, one that refuses the new item
\* when the queue is full.
enqueue_NoEvict(q, item) == Append(q, item)

enqueue_DropNewest(q, item) ==
  IF Len(q) >= maxQueueSize THEN q ELSE Append(q, item)

\* FrameQueue.enqueue, lines 33-37: the queue after the push.
enqueue(q, item) ==
  IF Len(q) >= maxQueueSize THEN Append(Tail(q), item) ELSE Append(q, item)

\* A variant of the test of line 39 that ignores the processing flag.
StartsLoop_Always(proc) == TRUE

\* line 39: whether enqueue starts processQueue.
StartsLoop(proc) == ~proc

\* A variant of line 51 that takes the newest item (pop instead of shift).
Dequeue_Newest(q) == [item |-> q[Len(q)], rest |-> SubSeq(q, 1, Len(q) - 1)]

\* line 51: which item processQueue takes, and what is left.
Dequeue(q) == [item |-> Head(q), rest |-> Tail(q)]

\* The events processQueue emits for an item (lines 58 and 64).
EmitResult(item) == <<[socket |-> item.socket, event |-> "analysis-result"]>>
EmitError_Swallowed(item) == <<>>     \* a variant that only logs the error

EmitError(item) == <<[socket |-> item.socket, event |-> "error"]>>

\* A variant without the delay.
DelayOver_Immediately(since, t) == TRUE

\* setTimeout(resolve, processDelay) set at time since: may it fire at time t?
DelayOver(since, t) == t >= since + processDelay

\* A variant that leaves the processing flag set when it finds the queue
\* empty.
processQueue_StaysBusy(q, ls) ==
  IF q = <<>>
    THEN /\ queue' = q
         /\ loops' = ls
         /\ UNCHANGED <<processing, context, dequeued>>
  ELSE
    LET d == Dequeue(q) IN
    /\ processing' = TRUE
    /\ queue' = d.rest
    /\ loops' = ls \cup {[item |-> d.item, stage |-> "infer", since |-> 0, out |-> <<>>]}
    /\ context' = updateContextWindow(context, d.item.frame)
    /\ dequeued' = Append(dequeued, d.item.frame.id)

\* processQueue up to its first await (lines 45-56), with processFrame up to
\* the call of generateContent (GeminiProcessor.ts lines 78-90).
processQueue(q, ls) ==
  IF q = <<>>
    THEN /\ processing' = FALSE
         /\ queue' = q
         /\ loops' = ls
         /\ UNCHANGED <<context, dequeued>>
  ELSE
    LET d == Dequeue(q) IN
    /\ processing' = TRUE
    /\ queue' = d.rest
    /\ loops' = ls \cup {[item |-> d.item, stage |-> "infer", since |-> 0, out |-> <<>>]}
    /\ context' = updateContextWindow(context, d.item.frame)
    /\ dequeued' = Append(dequeued, d.item.frame.id)

\* socket.on('video-frame'): enqueue, then the queue-status reply (which
\* changes no state of the server).
VideoFrame(s, maxFrames) ==
  /\ nextId <= maxFrames
  /\ nextId' = nextId + 1
  /\ LET q1 == enqueue(queue, [frame |-> [id |-> nextId], socket |-> s])
     IN IF StartsLoop(processing)
          THEN processQueue(q1, loops)
        ELSE queue' = q1 /\ UNCHANGED <<processing, loops, context, dequeued>>
  /\ UNCHANGED <<now, completed, completedAt, lastOutcome, lastMerged>>

\* The rest of the loop body once the item is done: lines 71-72.
Finish(l, events, outcome) ==
  /\ loops' = (loops \ {l}) \cup
                {[l EXCEPT !.stage = "delay", !.since = now, !.out = l.out \o events]}
  /\ completed' = Append(completed, l.item.frame.id)
  /\ completedAt' = now
  /\ lastOutcome' = outcome
  /\ UNCHANGED <<queue, processing, now, nextId, dequeued>>

\* generateContent resolves with text resp: processFrame lines 91-94, then
\* processQueue lines 58-61.
InferenceResolve(l, resp) ==
  /\ l \in loops /\ l.stage = "infer"
  /\ \E r \in {parseGeminiResponse(resp, now)} :
     IF r.thrown
       THEN /\ Finish(l, EmitError(l.item), "rejected")
            /\ UNCHANGED <<context, lastMerged>>
     ELSE /\ context' = updateContext(context, r.value, now)
          /\ lastMerged' = l.item.frame.id
          /\ Finish(l, EmitResult(l.item),
                    IF r.caught THEN "uninterpretable" ELSE "merged")

\* generateContent (or result.response) rejects: processFrame lines 95-98,
\* then processQueue lines 62-69.
InferenceReject(l) ==
  /\ l \in loops /\ l.stage = "infer"
  /\ Finish(l, EmitError(l.item), "rejected")
  /\ UNCHANGED <<context, lastMerged>>

\* The delay timer of line 72 fires: line 73 calls processQueue again.
DelayElapsed(l) ==
  /\ l \in loops /\ l.stage = "delay"
  /\ DelayOver(l.since, now)
  /\ processQueue(queue, loops \ {l})
  /\ UNCHANGED <<now, nextId, completed, completedAt, lastOutcome, lastMerged>>

Tick(maxTicks) ==
  /\ now < maxTicks * TickMs
  /\ now' = now + TickMs
  /\ UNCHANGED <<queue, processing, loops, context, nextId, dequeued, completed,
                 completedAt, lastOutcome, lastMerged>>

QInit ==
  /\ queue = <<>>
  /\ processing = FALSE
  /\ loops = {}
  /\ context = InitialContext
  /\ now = 0
  /\ nextId = 1
  /\ dequeued = <<>>
  /\ completed = <<>>
  /\ completedAt = -1
  /\ lastOutcome = "none"
  /\ lastMerged = 0

\* ------------------------------------------------------------------------
\* VideoFrameExtractor (utils/VideoFrameExtractor.ts): the rate limiter
\* ------------------------------------------------------------------------
targetFps == 2
frameInterval == 1000 \div targetFps

XTickMs == frameInterval \div 2     \* granularity of the browser clock; the
                                    \* animation frames of one tick are about 16 ms apart
StartTimes == {0, XTickMs, 2 * frameInterval}   \* performance.now() at construction

MaxXTicks == 8       \* SpecExtract: clock ticks
MaxDelivered == 4    \* SpecExtract: samples delivered

VARIABLES
  isActive,        \* VideoFrameExtractor.isActive
  video,           \* whether this.video is set (initialize / dispose)
  hasCallback,     \* whether onFrameCallback is set
  lastFrameTime,   \* VideoFrameExtractor.lastFrameTime
  xnow,            \* performance.now()
  rafs,            \* animation-frame callbacks scheduled by line 115
  awaiting,        \* currentTime of each extractFrames awaiting the callback
  delivered,       \* history: samples handed to the frame callback
  lastDeliveredAt, \* history: time of the last of them (-1: none)
  minGap           \* history: smallest time between two consecutive ones (-1: none)

xvars == <<isActive, video, hasCallback, lastFrameTime, xnow, rafs, awaiting,
           delivered, lastDeliveredAt, minGap>>

\* line 88: is the sample taken at currentTime accepted?
Accepts(currentTime, last) == currentTime - last >= frameInterval

\* lastFrameTime after the callback rejected (the catch of line 109 skips
\* line 108).
AfterReject(currentTime, last) == last

\* lastFrameTime after the callback resolved (line 108).
AfterResolve(currentTime, last) == currentTime

Deliver ==
  /\ delivered' = delivered + 1
  /\ lastDeliveredAt' = xnow
  /\ minGap' = IF lastDeliveredAt < 0 THEN minGap
               ELSE IF minGap < 0 \/ xnow - lastDeliveredAt < minGap
                 THEN xnow - lastDeliveredAt
               ELSE minGap

\* extractFrames, lines 83-115, up to its await; active is isActive when it
\* runs and pending the number of animation frames scheduled besides it.
extractFrames(active, pending) ==
  IF ~active \/ ~video
    THEN /\ rafs' = pending
         /\ UNCHANGED <<lastFrameTime, awaiting, delivered, lastDeliveredAt, minGap>>
  ELSE IF Accepts(xnow, lastFrameTime)
    THEN IF hasCallback
           THEN /\ delivered < MaxDelivered
                /\ awaiting' = Append(awaiting, xnow)
                /\ rafs' = pending
                /\ Deliver
                /\ UNCHANGED lastFrameTime
         ELSE /\ lastFrameTime' = xnow
              /\ rafs' = pending + 1
              /\ UNCHANGED <<awaiting, delivered, lastDeliveredAt, minGap>>
  ELSE /\ rafs' = pending + 1
       /\ UNCHANGED <<lastFrameTime, awaiting, delivered, lastDeliveredAt, minGap>>

\* initialize(): the camera stream is attached.
Initialize ==
  /\ ~video
  /\ video' = TRUE
  /\ UNCHANGED <<isActive, hasCallback, lastFrameTime, xnow, rafs, awaiting,
                 delivered, lastDeliveredAt, minGap>>

\* onFrame(callback)
OnFrame ==
  /\ ~hasCallback
  /\ hasCallback' = TRUE
  /\ UNCHANGED <<isActive, video, lastFrameTime, xnow, rafs, awaiting,
                 delivered, lastDeliveredAt, minGap>>

\* start(), lines 66-71: sets isActive and runs extractFrames in the call.
Start ==
  /\ ~isActive
  /\ isActive' = TRUE
  /\ extractFrames(TRUE, rafs)
  /\ UNCHANGED <<video, hasCallback, xnow>>

\* stop(), lines 73-76: only the flag is cleared; a scheduled animation frame
\* stays scheduled.
Stop ==
  /\ isActive
  /\ isActive' = FALSE
  /\ UNCHANGED <<video, hasCallback, lastFrameTime, xnow, rafs, awaiting,
                 delivered, lastDeliveredAt, minGap>>

\* dispose(), lines 131-140: stop(), and the video is released.
Dispose ==
  /\ video
  /\ isActive' = FALSE
  /\ video' = FALSE
  /\ UNCHANGED <<hasCallback, lastFrameTime, xnow, rafs, awaiting,
                 delivered, lastDeliveredAt, minGap>>

\* A scheduled animation frame runs extractFrames.
AnimationFrame ==
  /\ rafs > 0
  /\ extractFrames(isActive, rafs - 1)
  /\ UNCHANGED <<isActive, video, hasCallback, xnow>>

RemoveAt(seq, i) == SubSeq(seq, 1, i - 1) \o SubSeq(seq, i + 1, Len(seq))

\* The awaited callback settles: lines 108 or 109-111, then line 115.
CallbackSettles(i, newLast) ==
  /\ i \in 1..Len(awaiting)
  /\ lastFrameTime' = newLast
  /\ awaiting' = RemoveAt(awaiting, i)
  /\ rafs' = rafs + 1
  /\ UNCHANGED <<isActive, video, hasCallback, xnow, delivered, lastDeliveredAt, minGap>>

CallbackResolves(i) ==
  CallbackSettles(i, AfterResolve(awaiting[i], lastFrameTime))

CallbackRejects(i) ==
  CallbackSettles(i, AfterReject(awaiting[i], lastFrameTime))

XTick(maxTicks) ==
  /\ xnow < maxTicks * XTickMs
  /\ xnow' = xnow + XTickMs
  /\ UNCHANGED <<isActive, video, hasCallback, lastFrameTime, rafs, awaiting,
                 delivered, lastDeliveredAt, minGap>>

XIdle ==
  /\ isActive = FALSE
  /\ video = FALSE
  /\ hasCallback = FALSE
  /\ lastFrameTime = 0
  /\ xnow = 0
  /\ rafs = 0
  /\ awaiting = <<>>
  /\ delivered = 0
  /\ lastDeliveredAt = -1
  /\ minGap = -1

XInit ==
  /\ isActive = FALSE
  /\ video = FALSE
  /\ hasCallback = FALSE
  /\ lastFrameTime = 0
  /\ xnow \in StartTimes
  /\ rafs = 0
  /\ awaiting = <<>>
  /\ delivered = 0
  /\ lastDeliveredAt = -1
  /\ minGap = -1

\* ------------------------------------------------------------------------
\* The merge step on its own: processFrame lines 92-93 for chosen analyses
\* ------------------------------------------------------------------------
MaxMerges == 3       \* SpecMemory: merges performed

VARIABLES
  merges,       \* history: merges performed
  mprev,        \* history: the context before the last merge
  manalysis     \* history: the analysis of the last merge

mvars == <<merges, mprev, manalysis>>

\* Time between two merges: half the memory duration, or all of it.
MergeDeltas == {OBJECT_MEMORY_DURATION \div 2, OBJECT_MEMORY_DURATION}

\* An object as parseGeminiResponse returns it (confidence in tenths).
Seen(word, conf, pos) ==
  [name |-> <<word>>, position |-> pos, confidence |-> conf, lastSeenAt |-> 0]

PosAt(x) == JObj(<<[k |-> <<"x">>, v |-> JNum(x)]>>)

CupLeft == Seen("cup", 9, PosAt("0.5"))
CupRight == Seen("cup", 7, JUndef)
Table == Seen("table", 8, JUndef)

\* The k-th action of an analysis.
ActionNo(k) ==
  [description |-> <<"step", ToString(k)>>, objects |-> <<>>, confidence |-> 5,
   timestamp |-> 0]

ActionsUpTo(n) == [k \in 1..n |-> ActionNo(k)]

Analysis(objs, acts) ==
  [objects |-> objs, actions |-> acts, sceneDescription |-> <<"a", SP, "cup">>,
   relationships |-> <<>>, timestamp |-> 0]

Analyses ==
  {Analysis(<<>>, <<>>),
   Analysis(<<CupLeft>>, <<>>),
   Analysis(<<CupRight>>, ActionsUpTo(1)),
   Analysis(<<Table>>, <<>>),
   Analysis(<<CupLeft, CupRight>>, <<>>),
   Analysis(<<CupRight, Table, CupLeft>>, ActionsUpTo(4)),
   Analysis(<<>>, ActionsUpTo(4)),
   Analysis(<<>>, ActionsUpTo(MaxRecentActions + 1))}

\* The result parseGeminiResponse returns at currentTime (lines 188, 196, 209).
StampedAt(analysis, currentTime) ==
  [analysis EXCEPT
     !.objects = [i \in 1..Len(analysis.objects) |->
                    [analysis.objects[i] EXCEPT !.lastSeenAt = currentTime]],
     !.actions = [i \in 1..Len(analysis.actions) |->
                    [analysis.actions[i] EXCEPT !.timestamp = currentTime]],
     !.timestamp = currentTime]

\* processFrame line 93: the analysis is merged, dt after the previous one.
Merge(analysis, dt) ==
  /\ merges < MaxMerges
  /\ merges' = merges + 1
  /\ now' = now + dt
  /\ mprev' = context
  /\ manalysis' = StampedAt(analysis, now')
  /\ context' = updateContext(context, StampedAt(analysis, now'), now')
  /\ UNCHANGED <<queue, processing, loops, nextId, dequeued, completed, completedAt,
                 lastOutcome, lastMerged>>

MIdle ==
  /\ merges = 0
  /\ mprev = InitialContext
  /\ manalysis = Analysis(<<>>, <<>>)

\* ------------------------------------------------------------------------
\* The client (frontend/src/App.tsx): frames sent and the processing timeout
\* ------------------------------------------------------------------------
FrameTimeoutMs == 10000
CTickMs == FrameTimeoutMs \div 2     \* granularity of the client's clock

MaxSent == 3         \* SpecClient: frames sent
MaxCTicks == 4       \* SpecClient: clock ticks

VARIABLES
  isProcessing,    \* the React state isProcessing
  onFrameClosure,  \* <<v>>: the onFrame callback is registered and sees isProcessing = v
  sentAt,          \* per frame sent (its number is its index), the time of the emit
  repliedAt,       \* per frame sent, when its result or error arrived (-1: not yet)
  timers,          \* the timeouts of line 168 that are armed
  frameProcessingTimeoutRef,   \* the frame whose timer the ref holds (0: none)
  cnow,            \* the client's clock
  reports          \* history: the 'Frame processing timeout' errors set

cvars == <<isProcessing, onFrameClosure, sentAt, repliedAt, timers,
           frameProcessingTimeoutRef, cnow, reports>>

\* The effect of lines 149-198 runs: the callback it registers closes over
\* the isProcessing of this render.
InitializeVideo ==
  /\ onFrameClosure = <<>>
  /\ onFrameClosure' = <<isProcessing>>
  /\ UNCHANGED <<isProcessing, sentAt, repliedAt, timers, frameProcessingTimeoutRef,
                 cnow, reports>>

\* The onFrame callback, lines 161-177, on a connected socket: the frame is
\* emitted and a timeout armed, its handle stored in the ref.
OnFrameCallback ==
  /\ onFrameClosure # <<>>
  /\ ~onFrameClosure[1]
  /\ Len(sentAt) < MaxSent
  /\ isProcessing' = TRUE
  /\ sentAt' = Append(sentAt, cnow)
  /\ repliedAt' = Append(repliedAt, -1)
  /\ timers' = timers \cup {[frame |-> Len(sentAt) + 1, due |-> cnow + FrameTimeoutMs]}
  /\ frameProcessingTimeoutRef' = Len(sentAt) + 1
  /\ UNCHANGED <<onFrameClosure, cnow, reports>>

\* The frame the server answers next (it answers in the order of arrival).
NextReply == MinOf({f \in DOMAIN repliedAt : repliedAt[f] < 0})

HasPendingReply == \E f \in DOMAIN repliedAt : repliedAt[f] < 0

\* The timers armed after the 'analysis-result' handler, lines 99-103.
AfterResult(ts, ref) == ts

\* The timers armed after the 'error' handler, lines 110-118: clearTimeout of
\* the handle in the ref.
AfterError(ts, ref) == {t \in ts : t.frame # ref}

\* socket.on('analysis-result')
AnalysisResult ==
  /\ HasPendingReply
  /\ repliedAt' = [repliedAt EXCEPT ![NextReply] = cnow]
  /\ isProcessing' = FALSE
  /\ timers' = AfterResult(timers, frameProcessingTimeoutRef)
  /\ UNCHANGED <<onFrameClosure, sentAt, frameProcessingTimeoutRef, cnow, reports>>

\* socket.on('error')
ServerError ==
  /\ HasPendingReply
  /\ repliedAt' = [repliedAt EXCEPT ![NextReply] = cnow]
  /\ isProcessing' = FALSE
  /\ timers' = AfterError(timers, frameProcessingTimeoutRef)
  /\ UNCHANGED <<onFrameClosure, sentAt, frameProcessingTimeoutRef, cnow, reports>>

\* The timeout of lines 168-171 fires.
TimeoutFires(t) ==
  /\ t \in timers
  /\ cnow >= t.due
  /\ timers' = timers \ {t}
  /\ isProcessing' = FALSE
  /\ reports' = Append(reports, [frame |-> t.frame, at |-> cnow,
                                  repliedAt |-> repliedAt[t.frame]])
  /\ UNCHANGED <<onFrameClosure, sentAt, repliedAt, frameProcessingTimeoutRef, cnow>>

CTick ==
  /\ cnow < MaxCTicks * CTickMs
  /\ cnow' = cnow + CTickMs
  /\ UNCHANGED <<isProcessing, onFrameClosure, sentAt, repliedAt, timers,
                 frameProcessingTimeoutRef, reports>>

CIdle ==
  /\ isProcessing = FALSE
  /\ onFrameClosure = <<>>
  /\ sentAt = <<>>
  /\ repliedAt = <<>>
  /\ timers = {}
  /\ frameProcessingTimeoutRef = 0
  /\ cnow = 0
  /\ reports = <<>>

\* ------------------------------------------------------------------------
\* The video-processor worker (frontend/src/workers/videoProcessor.worker.ts)
\* ------------------------------------------------------------------------
MAX_BUFFER_SIZE == 5

MaxAdded == 6        \* SpecWorker: frames added
MaxWTimers == 2      \* SpecWorker: timers pending when START_PROCESSING is handled

VARIABLES
  processingEnabled,   \* the worker's processingEnabled
  frameBuffer,         \* the worker's frameBuffer (frame numbers)
  wtimers,             \* pending setTimeout(processFrameBuffer, PROCESS_INTERVAL)
  posted,              \* history: the frames posted as FRAME_READY
  wadded,              \* history: frames added so far
  wstarted             \* history: START_PROCESSING received and no STOP_PROCESSING since

wvars == <<processingEnabled, frameBuffer, wtimers, posted, wadded, wstarted>>

\* processFrameBuffer, lines 12-26, run with processingEnabled = enabled and
\* pending other timers set.
processFrameBuffer(enabled, pending) ==
  IF ~enabled \/ frameBuffer = <<>>
    THEN /\ wtimers' = pending
         /\ UNCHANGED <<frameBuffer, posted>>
  ELSE /\ posted' = Append(posted, frameBuffer[Len(frameBuffer)])
       /\ frameBuffer' = <<>>
       /\ wtimers' = pending + 1

\* case 'ADD_FRAME', lines 33-39
AddFrame ==
  /\ wadded < MaxAdded
  /\ wadded' = wadded + 1
  /\ frameBuffer' = Append(IF Len(frameBuffer) >= MAX_BUFFER_SIZE
                             THEN Tail(frameBuffer) ELSE frameBuffer, wadded + 1)
  /\ UNCHANGED <<processingEnabled, wtimers, posted, wstarted>>

\* case 'START_PROCESSING', lines 41-44
StartProcessing ==
  /\ wtimers < MaxWTimers
  /\ processingEnabled' = TRUE
  /\ wstarted' = TRUE
  /\ processFrameBuffer(TRUE, wtimers)
  /\ UNCHANGED wadded

\* case 'STOP_PROCESSING', lines 46-49
StopProcessing ==
  /\ wstarted
  /\ processingEnabled' = FALSE
  /\ frameBuffer' = <<>>
  /\ wstarted' = FALSE
  /\ UNCHANGED <<wtimers, posted, wadded>>

\* A timer set by line 25 fires.
WorkerTimer ==
  /\ wtimers > 0
  /\ processFrameBuffer(processingEnabled, wtimers - 1)
  /\ UNCHANGED <<processingEnabled, wadded, wstarted>>

WIdle ==
  /\ processingEnabled = TRUE
  /\ frameBuffer = <<>>
  /\ wtimers = 0
  /\ posted = <<>>
  /\ wadded = 0
  /\ wstarted = FALSE

\* ------------------------------------------------------------------------
\* GeminiSession (frontend/src/services/GeminiSession.ts): the connection
\* ------------------------------------------------------------------------
MaxSockets == 2      \* SpecSession: WebSockets created
MaxSends == 2        \* SpecSession: calls of sendVideoFrame

VARIABLES
  ws,            \* GeminiSession.ws: the number of the current WebSocket (0: null)
  isConnected,   \* GeminiSession.isConnected
  readyState,    \* per WebSocket created, its readyState
  sends          \* history: per sendVideoFrame, whether it was rejected and
                 \* whether the current WebSocket was open

gvars == <<ws, isConnected, readyState, sends>>

\* Whether the session's current WebSocket is open.
CurrentOpen == ws # 0 /\ readyState[ws] = "OPEN"

\* connect(), lines 23-50, on a session without a socket: a WebSocket is
\* created and its handlers set.
Connect ==
  /\ ws = 0
  /\ Len(readyState) < MaxSockets
  /\ readyState' = Append(readyState, "CONNECTING")
  /\ ws' = Len(readyState) + 1
  /\ UNCHANGED <<isConnected, sends>>

\* The WebSocket k opens: its onopen handler, lines 30-34.
SocketOpens(k) ==
  /\ k \in DOMAIN readyState
  /\ readyState[k] = "CONNECTING"
  /\ readyState' = [readyState EXCEPT ![k] = "OPEN"]
  /\ isConnected' = TRUE
  /\ UNCHANGED <<ws, sends>>

\* isConnected after the onclose handler of WebSocket k, lines 42-45.
OnClose(k, current, connected) == FALSE

\* The WebSocket k is closed (by the server, by a failure, or at the end of
\* the closing handshake): its onclose handler runs.
SocketCloses(k) ==
  /\ k \in DOMAIN readyState
  /\ readyState[k] # "CLOSED"
  /\ readyState' = [readyState EXCEPT ![k] = "CLOSED"]
  /\ isConnected' = OnClose(k, ws, isConnected)
  /\ UNCHANGED <<ws, sends>>

\* close(), lines 102-108
Close ==
  /\ ws # 0
  /\ readyState' = [readyState EXCEPT ![ws] = IF @ = "CLOSED" THEN @ ELSE "CLOSING"]
  /\ ws' = 0
  /\ isConnected' = FALSE
  /\ UNCHANGED sends

\* sendVideoFrame(), lines 52-64
SendVideoFrame ==
  /\ Len(sends) < MaxSends
  /\ sends' = Append(sends, [rejected |-> ~isConnected \/ ws = 0, open |-> CurrentOpen])
  /\ UNCHANGED <<ws, isConnected, readyState>>

GIdle ==
  /\ ws = 0
  /\ isConnected = FALSE
  /\ readyState = <<>>
  /\ sends = <<>>

fvars == <<cvars, wvars, gvars>>

FIdle == CIdle /\ WIdle /\ GIdle

\* ------------------------------------------------------------------------
\* server.ts: voice commands, the health endpoint; clearContext
\* ------------------------------------------------------------------------
MaxVoice == 2        \* SpecVoice: voice commands received
MaxVoiceReaders == 1 \* SpecReaders: voice commands received
MaxResets == 1       \* SpecReset: calls of clearContext

VARIABLES
  voice,        \* voice-command handlers awaiting generateVoiceResponse
  vlog,         \* history: per command, its caller, inference calls, outcome, replies
  resets,       \* history: calls of clearContext
  staleUpTo,    \* history: how many items had been dequeued at the last one
  pendingThen,  \* history: ids that were in the queue at the last one
  owner         \* history (SpecSessions): the socket each frame came from, by id

vvars == <<voice, vlog>>
rvars == <<resets, staleUpTo, pendingThen>>
hvars == <<owner>>

\* A variant of generateVoiceResponse that notes the command in the context.
generateVoiceResponse_Noted(ctx) ==
  [ctx EXCEPT !.sceneDescription = <<"voice", SP, "command">>]

\* this.context after generateVoiceResponse has built its prompt and called
\* generateContent (lines 103-105): createVoicePrompt only reads it.
generateVoiceResponse(ctx) == ctx

\* createVoicePrompt at time t, lines 147-167: what the prompt says of the
\* context (ages in ms).
createVoicePrompt(ctx, t) ==
  [sceneDescription |-> IF ctx.sceneDescription \in {Undefined, <<>>}
                          THEN <<"No scene description available">>
                        ELSE ctx.sceneDescription,
   objects |-> [i \in 1..Len(ctx.recentObjects) |->
                  [name |-> ctx.recentObjects[i].name,
                   age |-> t - ctx.recentObjects[i].lastSeenAt]],
   actions |-> [i \in 1..Len(ctx.recentActions) |->
                  [description |-> ctx.recentActions[i].description,
                   objects |-> ctx.recentActions[i].objects]]]

EmitVoiceResponse(v) == <<[socket |-> v.socket, event |-> "voice-response"]>>

\* A variant of the catch branch that only logs.
EmitVoiceError_Swallowed(v) == <<>>

EmitVoiceError(v) == <<[socket |-> v.socket, event |-> "error"]>>

\* socket.on('voice-command') up to its await (lines 136-141).
VoiceCommand(s, maxVoice) ==
  /\ Len(vlog) < maxVoice
  /\ voice' = voice \cup {[id |-> Len(vlog) + 1, socket |-> s]}
  /\ vlog' = Append(vlog, [socket |-> s, calls |-> 1, outcome |-> "pending", out |-> <<>>,
                           prompt |-> createVoicePrompt(context, now)])
  /\ context' = generateVoiceResponse(context)
  /\ UNCHANGED <<queue, processing, loops, now, nextId, dequeued, completed, completedAt,
                 lastOutcome, lastMerged, rvars, hvars, fvars>>

VoiceSettles(v, outcome, events) ==
  /\ v \in voice
  /\ voice' = voice \ {v}
  /\ vlog' = [vlog EXCEPT ![v.id].outcome = outcome, ![v.id].out = @ \o events]
  /\ UNCHANGED <<qvars, rvars, hvars, fvars>>

\* generateContent resolves: lines 106-107, then server.ts lines 143-150.
VoiceResolve(v) == VoiceSettles(v, "resolved", EmitVoiceResponse(v))

\* generateContent rejects: lines 108-111, then server.ts lines 151-158.
VoiceReject(v) == VoiceSettles(v, "rejected", EmitVoiceError(v))

\* getContext(): a copy of the context is returned (GET /health).
getContext(ctx) == ctx

Health ==
  /\ context' = getContext(context)
  /\ UNCHANGED <<queue, processing, loops, now, nextId, dequeued, completed, completedAt,
                 lastOutcome, lastMerged, vvars, rvars, hvars, fvars>>

\* clearContext(), lines 299-306.
clearContext(ctx) == InitialContext

ClearContext ==
  /\ resets < MaxResets
  /\ resets' = resets + 1
  /\ staleUpTo' = Len(dequeued)
  /\ pendingThen' = {queue[i].frame.id : i \in DOMAIN queue}
  /\ context' = clearContext(context)
  /\ UNCHANGED <<queue, processing, loops, now, nextId, dequeued, completed, completedAt,
                 lastOutcome, lastMerged, vvars, hvars, fvars>>

VIdle == voice = {} /\ vlog = <<>>
RIdle == resets = 0 /\ staleUpTo = 0 /\ pendingThen = {}

HIdle == owner = <<>>

svars == <<mvars, vvars, rvars, hvars, fvars>>

\* ------------------------------------------------------------------------
\* Specifications
\* ------------------------------------------------------------------------
VARIABLES
  ptext,    \* the text handed to parseGeminiResponse
  pdone,    \* whether the call has been made
  pout,     \* what parseGeminiResponse made of it
  psrc      \* history: the analysis the text was written from (<<>>: none)

pvars == <<ptext, pdone, pout, psrc>>

vars == <<qvars, xvars, pvars, svars>>

NotParsed == [thrown |-> FALSE, caught |-> FALSE, value |-> DegradedResult(0)]

PIdle == ptext = <<>> /\ pdone = FALSE /\ pout = NotParsed /\ psrc = <<>>

\* ------------------------------------------------------------------------
\* Texts for parseGeminiResponse
\* ------------------------------------------------------------------------
MaxShortLen == 2     \* SpecParse: length of the unstructured texts

ShortAlphabet ==
  {LB, RB, LK, RK, CM, CL, QT, BS, SP, NL, FENCE, "json", "null", "undefined",
   "0.9", "cup", "objects"}

ShortTexts == UNION {[1..n -> ShortAlphabet] : n \in 0..MaxShortLen}

Absent == <<"(absent)">>      \* a member the object does not have

CupObject ==
  <<LB>> \o Member("name", Quoted("cup")) \o <<CM>>
         \o Member("confidence", <<"0.9">>) \o <<RB>>

ObjectsValues ==
  {Absent, <<LK, RK>>, <<LK, SP, RK>>, <<LK, "null", RK>>, <<LK, "undefined", RK>>,
   <<LK>> \o CupObject \o <<RK>>,
   <<LK>> \o CupObject \o <<CM, RK>>,
   <<LK>> \o CupObject \o <<CM, "null", RK>>,
   <<LK, LB, RB, RK>>,
   <<LK, "7", CM>> \o Quoted("cup") \o <<RK>>,
   <<LK, LB>> \o Member("name", <<"0">>) \o <<CM>>
              \o Member("confidence", Quoted("0.9")) \o <<CM>>
              \o Member("position", <<LB>> \o Member("x", <<"0.5">>) \o <<RB>>)
              \o <<RB, RK>>,
   Quoted("cup")}

ActionsValues ==
  {Absent, <<LK, RK>>, <<LK, "null", RK>>,
   <<LK, LB>> \o Member("description", <<QT, "cup", SP, "on", SP, "table", QT>>)
              \o <<CM>> \o Member("objects", <<LK>> \o Quoted("cup") \o <<CM, "7", RK>>)
              \o <<RB, RK>>}

RelationshipsValues ==
  {Absent, <<LK, "null", RK>>,
   <<LK, LB>> \o Member("object1", Quoted("cup")) \o <<CM>>
              \o Member("object2", Quoted("table")) \o <<RB, RK>>}

DescriptionValues ==
  {Absent, <<QT, "a", SP, "cup", QT>>, <<"7">>, <<QT, BS, "q", QT>>,
   <<QT, "a", NL, "cup", QT>>}

MemberOrNone(key, val) == IF val = Absent THEN <<>> ELSE <<Member(key, val)>>

RECURSIVE JoinComma(_)
JoinComma(parts) ==
  IF parts = <<>> THEN <<>>
  ELSE IF Len(parts) = 1 THEN parts[1]
  ELSE parts[1] \o <<CM>> \o JoinComma(Tail(parts))

\* The JSON object with the given members, in the order of the prompt.
ObjectText(objs, acts, desc, rels) ==
  <<LB>> \o JoinComma(MemberOrNone("objects", objs) \o MemberOrNone("actions", acts)
                        \o MemberOrNone("sceneDescription", desc)
                        \o MemberOrNone("relationships", rels))
         \o <<RB>>

ObjectTexts ==
  {ObjectText(o, a, d, r) : o \in ObjectsValues, a \in ActionsValues,
                            d \in DescriptionValues, r \in RelationshipsValues}

\* The ways the service wraps, decorates or cuts the object.
Wrapped(body) ==
  {body,
   Fenced(body),
   <<FENCE, NL>> \o body \o <<NL, FENCE>>,
   <<"scene", SP, "analysis", CL, NL>> \o Fenced(body) \o <<NL, "scene">>,
   <<SP, NL>> \o body \o <<NL>>,
   Tail(body),
   SubSeq(body, 1, Len(body) - 1),
   SubSeq(body, 1, Len(body) - 2),
   SubSeq(body, 1, Len(body) - 1) \o <<CM, SP, RB>>,
   <<FENCE, "json", NL>> \o body}

ParseInputs == ShortTexts \cup UNION {Wrapped(b) : b \in ObjectTexts}

\* ------------------------------------------------------------------------
\* Well-formed outputs: analyses of the schema of the prompt (lines 137-143)
\* and their JSON text
\* ------------------------------------------------------------------------
\* Text of the string fields: plain words, and text with the characters the
\* cleaning of lines 238-244 looks for.
FieldTexts ==
  {<<"cup">>, <<"a", SP, "cup">>, <<"undefined">>, <<"cup", CM, SP, RB>>,
   <<LK, SP, RK>>, <<BS, "q">>, <<QT, "cup", QT>>, <<"a", NL, "cup">>}

ConfidenceTokens == {"0", "0.5", "1"}       \* the bounds of [0,1] and a value inside

PosXY(x, y) == JObj(<<[k |-> <<"x">>, v |-> JNum(x)], [k |-> <<"y">>, v |-> JNum(y)]>>)

Positions == {JUndef, PosXY("0", "1"), PosXY("0.5", "0.5")}

\* Objects and actions whose confidence is one of confs.
ObjectsWith(confs) ==
  {[name |-> n, position |-> p, confidence |-> c] :
     n \in FieldTexts, p \in Positions, c \in confs}

ActionsWith(confs) ==
  {[description |-> <<"cup", SP, "on", SP, "table">>, objects |-> <<<<"cup">>, <<"table">>>>,
    confidence |-> c] : c \in confs}

SchemaRelationship ==
  [object1 |-> <<"cup">>, object2 |-> <<"table">>, relationship |-> <<"on">>]

AnalysesWith(confs) ==
  {[objects |-> <<o>>, actions |-> <<>>, sceneDescription |-> d, relationships |-> <<>>] :
     o \in ObjectsWith(confs), d \in {<<"a", SP, "cup">>}}
  \cup {[objects |-> <<>>, actions |-> <<a>>, sceneDescription |-> d,
         relationships |-> <<SchemaRelationship>>] :
          a \in ActionsWith(confs), d \in FieldTexts}

\* The analyses of the schema: confidence within [0,1].
SchemaAnalyses == AnalysesWith(ConfidenceTokens)

\* Analyses with any number for a confidence.
NumericAnalyses == AnalysesWith(NumTokens)

\* A JSON string literal: quotes, backslashes and newlines escaped.
RECURSIVE Escaped(_)
Escaped(chars) ==
  IF chars = <<>> THEN <<>>
  ELSE (CASE Head(chars) = QT -> <<BS, QT>>
          [] Head(chars) = BS -> <<BS, BS>>
          [] Head(chars) = NL -> <<BS, "n">>
          [] OTHER -> <<Head(chars)>>) \o Escaped(Tail(chars))

StringLiteral(chars) == <<QT>> \o Escaped(chars) \o <<QT>>

PositionText(p) ==
  <<LB>> \o Member("x", <<Get(p, "x").n>>) \o <<CM>> \o Member("y", <<Get(p, "y").n>>)
         \o <<RB>>

ObjectJson(o) ==
  <<LB>> \o Member("name", StringLiteral(o.name))
         \o (IF o.position = JUndef THEN <<>>
             ELSE <<CM>> \o Member("position", PositionText(o.position)))
         \o <<CM>> \o Member("confidence", <<o.confidence>>) \o <<RB>>

ActionJson(a) ==
  <<LB>> \o Member("description", StringLiteral(a.description)) \o <<CM>>
         \o Member("objects",
                   <<LK>> \o JoinComma([i \in 1..Len(a.objects) |->
                                          StringLiteral(a.objects[i])]) \o <<RK>>)
         \o <<CM>> \o Member("confidence", <<a.confidence>>) \o <<RB>>

RelationshipJson(r) ==
  <<LB>> \o Member("object1", StringLiteral(r.object1)) \o <<CM>>
         \o Member("object2", StringLiteral(r.object2)) \o <<CM>>
         \o Member("relationship", StringLiteral(r.relationship)) \o <<RB>>

\* The analysis as JSON text, in the format of the prompt.
AnalysisJson(a) ==
  ObjectText(<<LK>> \o JoinComma([i \in 1..Len(a.objects) |-> ObjectJson(a.objects[i])])
                    \o <<RK>>,
             <<LK>> \o JoinComma([i \in 1..Len(a.actions) |-> ActionJson(a.actions[i])])
                    \o <<RK>>,
             StringLiteral(a.sceneDescription),
             <<LK>> \o JoinComma([i \in 1..Len(a.relationships) |->
                                    RelationshipJson(a.relationships[i])]) \o <<RK>>)

\* parseGeminiResponse is called on the text.
Parse ==
  /\ ~pdone
  /\ pdone' = TRUE
  /\ pout' = parseGeminiResponse(ptext, now)
  /\ UNCHANGED <<ptext, psrc>>

SIdle == MIdle /\ VIdle /\ RIdle /\ HIdle /\ FIdle

Init == QInit /\ XIdle /\ PIdle /\ SIdle

\* The server's steps, for the given clients, frames, clock and inference
\* outputs.
ServerNext(sockets, maxFrames, maxTicks, responses) ==
  \/ \E s \in sockets : VideoFrame(s, maxFrames) /\ UNCHANGED <<xvars, pvars, svars>>
  \/ \E l \in loops, r \in responses :
       InferenceResolve(l, r) /\ UNCHANGED <<xvars, pvars, svars>>
  \/ \E l \in loops : InferenceReject(l) /\ UNCHANGED <<xvars, pvars, svars>>
  \/ \E l \in loops : DelayElapsed(l) /\ UNCHANGED <<xvars, pvars, svars>>
  \/ Tick(maxTicks) /\ UNCHANGED <<xvars, pvars, svars>>

\* Many frames from one client, little time: the queue fills and overflows.
Next == ServerNext({"s1"}, MaxFrames, MaxTicks, Responses)

Spec == Init /\ [][Next]_vars

\* Few frames from two clients, with time for the delays to elapse.
NextFlow == ServerNext(Sockets, MaxFramesFlow, MaxTicksFlow, Responses)

SpecFlow == Init /\ [][NextFlow]_vars

\* Enough frames and time for the context window to overflow.
NextWindow == ServerNext({"s1"}, MaxFramesWindow, MaxTicksWindow, {RespProse})

SpecWindow == Init /\ [][NextWindow]_vars

\* The frame extractor, started once, with a callback that may be slow or
\* reject.
InitExtract == QInit /\ XInit /\ PIdle /\ SIdle

NextExtract ==
  \/ Initialize /\ UNCHANGED <<qvars, pvars, svars>>
  \/ OnFrame /\ UNCHANGED <<qvars, pvars, svars>>
  \/ Start /\ UNCHANGED <<qvars, pvars, svars>>
  \/ AnimationFrame /\ UNCHANGED <<qvars, pvars, svars>>
  \/ \E i \in 1..Len(awaiting) : CallbackResolves(i) /\ UNCHANGED <<qvars, pvars, svars>>
  \/ \E i \in 1..Len(awaiting) : CallbackRejects(i) /\ UNCHANGED <<qvars, pvars, svars>>
  \/ XTick(MaxXTicks) /\ UNCHANGED <<qvars, pvars, svars>>

SpecExtract == InitExtract /\ [][NextExtract]_vars

MaxLoops == 3        \* SpecRestart: extraction loops alive at a time
MaxXTicksRestart == 4    \* SpecRestart: clock ticks

\* The frame extractor started, stopped, disposed of and started again, with
\* a callback that resolves.
NextRestart ==
  \/ Initialize /\ UNCHANGED <<qvars, pvars, svars>>
  \/ OnFrame /\ UNCHANGED <<qvars, pvars, svars>>
  \/ rafs + Len(awaiting) < MaxLoops /\ Start /\ UNCHANGED <<qvars, pvars, svars>>
  \/ Stop /\ UNCHANGED <<qvars, pvars, svars>>
  \/ Dispose /\ UNCHANGED <<qvars, pvars, svars>>
  \/ AnimationFrame /\ UNCHANGED <<qvars, pvars, svars>>
  \/ \E i \in 1..Len(awaiting) : CallbackResolves(i) /\ UNCHANGED <<qvars, pvars, svars>>
  \/ XTick(MaxXTicksRestart) /\ UNCHANGED <<qvars, pvars, svars>>

SpecRestart == InitExtract /\ [][NextRestart]_vars

\* parseGeminiResponse on every text of ParseInputs.
InitParse ==
  /\ QInit /\ XIdle /\ SIdle
  /\ ptext \in ParseInputs /\ pdone = FALSE /\ pout = NotParsed /\ psrc = <<>>

NextParse == Parse /\ UNCHANGED <<qvars, xvars, svars>>

SpecParse == InitParse /\ [][NextParse]_vars

\* parseGeminiResponse on the JSON text of every analysis of SchemaAnalyses,
\* bare or in a json fence.
InitRound ==
  /\ QInit /\ XIdle /\ SIdle
  /\ \E a \in SchemaAnalyses :
       /\ psrc = <<a>>
       /\ ptext \in {AnalysisJson(a), Fenced(AnalysisJson(a))}
  /\ pdone = FALSE /\ pout = NotParsed

SpecRound == InitRound /\ [][NextParse]_vars

\* processFrame lines 92-93: the text is parsed and the result merged.
ParseAndMerge ==
  /\ Parse
  /\ context' = updateContext(context, pout'.value, now)
  /\ UNCHANGED <<queue, processing, loops, now, nextId, dequeued, completed, completedAt,
                 lastOutcome, lastMerged>>

\* processFrame on the JSON text of every analysis of NumericAnalyses.
InitNumeric ==
  /\ QInit /\ XIdle /\ SIdle
  /\ \E a \in NumericAnalyses : psrc = <<a>> /\ ptext = Fenced(AnalysisJson(a))
  /\ pdone = FALSE /\ pout = NotParsed

NextNumeric == ParseAndMerge /\ UNCHANGED <<xvars, svars>>

SpecNumeric == InitNumeric /\ [][NextNumeric]_vars

\* Merges of the analyses of Analyses, MergeDeltas apart.
NextMemory ==
  \E a \in Analyses, dt \in MergeDeltas :
    Merge(a, dt) /\ UNCHANGED <<xvars, pvars, vvars, rvars, hvars, fvars>>

SpecMemory == Init /\ [][NextMemory]_vars

MaxFramesVoice == 2  \* SpecVoice: frames received
MaxTicksVoice == 2   \* SpecVoice: clock ticks

\* The voice-command handler and its two continuations.
VoiceNext(sockets, maxVoice) ==
  \/ \E s \in sockets : VoiceCommand(s, maxVoice) /\ UNCHANGED <<xvars, pvars, mvars>>
  \/ \E v \in voice : VoiceResolve(v) /\ UNCHANGED <<xvars, pvars, mvars>>
  \/ \E v \in voice : VoiceReject(v) /\ UNCHANGED <<xvars, pvars, mvars>>

\* Frames and voice commands of two clients.
NextVoice ==
  \/ ServerNext(Sockets, MaxFramesVoice, MaxTicksVoice, {RespProse})
  \/ VoiceNext(Sockets, MaxVoice)

SpecVoice == Init /\ [][NextVoice]_vars

MaxFramesReaders == 12   \* SpecReaders: frames received
MaxTicksReaders == 2     \* SpecReaders: clock ticks

\* Everything that touches the processor except clearContext: frames enough
\* to overflow the queue, a voice command, health requests.
NextReaders ==
  \/ ServerNext({"s1"}, MaxFramesReaders, MaxTicksReaders, {RespCup})
  \/ VoiceNext({"s1"}, MaxVoiceReaders)
  \/ Health /\ UNCHANGED <<xvars, pvars, mvars>>

SpecReaders == Init /\ [][NextReaders]_vars

MaxFramesReset == 4      \* SpecReset: frames received
MaxTicksReset == 3       \* SpecReset: clock ticks

\* The frame pipeline with clearContext called at any moment.
NextReset ==
  \/ ServerNext({"s1"}, MaxFramesReset, MaxTicksReset, {RespCup})
  \/ ClearContext /\ UNCHANGED <<xvars, pvars, mvars>>

SpecReset == Init /\ [][NextReset]_vars

MaxFramesHang == 3       \* SpecHang: frames received
MaxTicksHang == 4        \* SpecHang: clock ticks

\* The frame pipeline with what the event loop guarantees: time passes and
\* a timer that is due fires.  Nothing in the code makes generateContent
\* settle (no timeout is passed to getGenerativeModel or generateContent), so
\* InferenceResolve and InferenceReject carry no fairness.
NextHang == ServerNext({"s1"}, MaxFramesHang, MaxTicksHang, {RespCup})

TimerFires == \E l \in loops : DelayElapsed(l) /\ UNCHANGED <<xvars, pvars, svars>>

TimePasses == Tick(MaxTicksHang) /\ UNCHANGED <<xvars, pvars, svars>>

SpecHang ==
  Init /\ [][NextHang]_vars /\ WF_vars(TimerFires) /\ WF_vars(TimePasses)

\* The client sending frames, the server answering each with a result or an
\* error, or not at all.
NextClient ==
  \/ InitializeVideo /\ UNCHANGED <<qvars, xvars, pvars, mvars, vvars, rvars, hvars, wvars, gvars>>
  \/ OnFrameCallback /\ UNCHANGED <<qvars, xvars, pvars, mvars, vvars, rvars, hvars, wvars, gvars>>
  \/ AnalysisResult /\ UNCHANGED <<qvars, xvars, pvars, mvars, vvars, rvars, hvars, wvars, gvars>>
  \/ ServerError /\ UNCHANGED <<qvars, xvars, pvars, mvars, vvars, rvars, hvars, wvars, gvars>>
  \/ \E t \in timers :
       TimeoutFires(t) /\ UNCHANGED <<qvars, xvars, pvars, mvars, vvars, rvars, hvars, wvars, gvars>>
  \/ CTick /\ UNCHANGED <<qvars, xvars, pvars, mvars, vvars, rvars, hvars, wvars, gvars>>

SpecClient == Init /\ [][NextClient]_vars

\* The worker handling its messages, its timers firing when they are due.
NextWorker ==
  \/ AddFrame /\ UNCHANGED <<qvars, xvars, pvars, mvars, vvars, rvars, hvars, cvars, gvars>>
  \/ StartProcessing
       /\ UNCHANGED <<qvars, xvars, pvars, mvars, vvars, rvars, hvars, cvars, gvars>>
  \/ StopProcessing
       /\ UNCHANGED <<qvars, xvars, pvars, mvars, vvars, rvars, hvars, cvars, gvars>>
  \/ WorkerTimer /\ UNCHANGED <<qvars, xvars, pvars, mvars, vvars, rvars, hvars, cvars, gvars>>

WorkerTimerFires ==
  WorkerTimer /\ UNCHANGED <<qvars, xvars, pvars, mvars, vvars, rvars, hvars, cvars, gvars>>

SpecWorker == Init /\ [][NextWorker]_vars /\ WF_vars(WorkerTimerFires)

\* A session connected, used, closed and connected again, its sockets
\* opening and closing when the network has it.
NextSession ==
  \/ Connect /\ UNCHANGED <<qvars, xvars, pvars, mvars, vvars, rvars, hvars, cvars, wvars>>
  \/ \E k \in DOMAIN readyState :
       SocketOpens(k)
         /\ UNCHANGED <<qvars, xvars, pvars, mvars, vvars, rvars, hvars, cvars, wvars>>
  \/ \E k \in DOMAIN readyState :
       SocketCloses(k)
         /\ UNCHANGED <<qvars, xvars, pvars, mvars, vvars, rvars, hvars, cvars, wvars>>
  \/ Close /\ UNCHANGED <<qvars, xvars, pvars, mvars, vvars, rvars, hvars, cvars, wvars>>
  \/ SendVideoFrame
       /\ UNCHANGED <<qvars, xvars, pvars, mvars, vvars, rvars, hvars, cvars, wvars>>

SpecSession == Init /\ [][NextSession]_vars

MaxFramesLive == 12      \* SpecLive: frames received (enough to overflow the queue)
MaxTicksLive == 1        \* SpecLive: clock ticks while no delay is running

\* Time passes while a delay timer is running: the clock reaches the time
\* the timer is set for.
DelayRuns ==
  /\ \E l \in loops : l.stage = "delay" /\ ~DelayOver(l.since, now)
  /\ Tick(MaxTicksLive + 2 * MaxFramesLive)
  /\ UNCHANGED <<xvars, pvars, svars>>

\* The inference call of the item in flight returns or rejects.
InferenceSettles ==
  \E l \in loops :
    /\ InferenceReject(l) \/ InferenceResolve(l, RespProse)
    /\ UNCHANGED <<xvars, pvars, svars>>

\* The frame pipeline with an inference service that always answers: every
\* call settles, time passes while a timer runs and a timer that is due
\* fires.
NextLive ==
  \/ ServerNext({"s1"}, MaxFramesLive, MaxTicksLive, {RespProse})
  \/ DelayRuns

SpecLive ==
  /\ Init /\ [][NextLive]_vars
  /\ WF_vars(TimerFires) /\ WF_vars(DelayRuns) /\ WF_vars(InferenceSettles)

MaxFramesSessions == 3   \* SpecSessions: frames received
MaxTicksSessions == 3    \* SpecSessions: clock ticks

\* socket.on('video-frame') of the connection s, the sender noted.
VideoFrameFrom(s, maxFrames) ==
  /\ VideoFrame(s, maxFrames)
  /\ owner' = Append(owner, s)

\* Two connections sending frames to the one queue and the one processor.
NextSessions ==
  \/ \E s \in Sockets :
       VideoFrameFrom(s, MaxFramesSessions)
         /\ UNCHANGED <<xvars, pvars, mvars, vvars, rvars, fvars>>
  \/ \E l \in loops : InferenceResolve(l, RespCup) /\ UNCHANGED <<xvars, pvars, svars>>
  \/ \E l \in loops : InferenceReject(l) /\ UNCHANGED <<xvars, pvars, svars>>
  \/ \E l \in loops : DelayElapsed(l) /\ UNCHANGED <<xvars, pvars, svars>>
  \/ Tick(MaxTicksSessions) /\ UNCHANGED <<xvars, pvars, svars>>

SpecSessions == Init /\ [][NextSessions]_vars

MaxQuietTime == 30000    \* SpecQuiet: how long the clock runs without a merge
MaxVoiceQuiet == 2       \* SpecQuiet: voice commands received

\* Time passes while nothing is merged (no frame arrives, or every inference
\* call is rejected).
Quiet(dt) ==
  /\ now + dt <= MaxQuietTime
  /\ now' = now + dt
  /\ UNCHANGED <<queue, processing, loops, context, nextId, dequeued, completed,
                 completedAt, lastOutcome, lastMerged>>

\* Merges, quiet periods and voice commands.
NextQuiet ==
  \/ \E a \in {Analysis(<<CupLeft>>, <<>>), Analysis(<<Table>>, ActionsUpTo(1))},
        dt \in MergeDeltas :
       Merge(a, dt) /\ UNCHANGED <<xvars, pvars, vvars, rvars, hvars, fvars>>
  \/ \E dt \in MergeDeltas : Quiet(dt) /\ UNCHANGED <<xvars, pvars, svars>>
  \/ VoiceNext({"s1"}, MaxVoiceQuiet)

SpecQuiet == Init /\ [][NextQuiet]_vars

\* ------------------------------------------------------------------------
\* Properties of the request queue (C1 - C8)
\* ------------------------------------------------------------------------
InFlight == {l \in loops : l.stage = "infer"}

\* C1: at most one frame-analysis inference call is in flight, whenever the
\* frames arrive (while an item awaits inference, or during the delay).
C1_AtMostOneInference == Cardinality(InFlight) <= 1

\* An inference is in flight for a later item while frames that arrived in
\* the meantime wait in the queue.
C1_Witness ==
  /\ Cardinality(InFlight) = 1
  /\ completed # <<>>
  /\ Len(queue) >= 2

\* C2: the queue never holds more than maxQueueSize items.
C2_QueueBounded == Len(queue) <= maxQueueSize

\* The queue is full after more frames arrived than it and the loop hold.
C2_Witness == Len(queue) = maxQueueSize /\ nextId > maxQueueSize + 2

ArrivedItem == [frame |-> [id |-> nextId], socket |-> "s1"]

\* C3: every arriving frame is accepted at once; a full queue loses exactly
\* its oldest item and the new item becomes the last one, so the queue is
\* always the newest arrivals in arrival order.
C3_EnqueueKeepsNewest ==
  /\ [](\A i \in 1..Len(queue) : queue[i].frame.id = nextId - 1 - Len(queue) + i)
  /\ [][nextId' # nextId /\ processing =>
          queue' = IF Len(queue) = maxQueueSize
                     THEN Append(Tail(queue), ArrivedItem)
                   ELSE Append(queue, ArrivedItem)]_vars

\* A full queue whose oldest item is gone: the head is not the successor of
\* the item being processed.
C3_Witness ==
  /\ Len(queue) = maxQueueSize
  /\ \E l \in loops : queue[1].frame.id > l.item.frame.id + 1

\* C4: items are dequeued in arrival order, each one finished before the
\* next is dequeued, and merges follow that order.
C4_ProcessedInOrder ==
  /\ [](/\ \A i \in 1..(Len(dequeued) - 1) : dequeued[i] < dequeued[i + 1]
        /\ Len(completed) <= Len(dequeued)
        /\ Len(dequeued) <= Len(completed) + 1
        /\ completed = SubSeq(dequeued, 1, Len(completed)))
  /\ [][lastMerged' # lastMerged =>
          lastMerged' > lastMerged /\ lastMerged' = dequeued[Len(dequeued)]]_vars

\* An item was evicted, and the item after it has been processed and merged.
C4_Witness ==
  \E i \in 1..(Len(dequeued) - 1) :
    /\ dequeued[i + 1] > dequeued[i] + 1
    /\ lastMerged = dequeued[i + 1]
    /\ Len(completed) = i + 1

\* C5: once an item has finished (result or error), the next item is not
\* dequeued before processDelay has passed, whenever it was enqueued.
C5_DelayBeforeNext ==
  [][Len(dequeued') > Len(dequeued) /\ completedAt >= 0 =>
       now >= completedAt + processDelay]_vars

\* The second item is being processed after the first one failed and the
\* delay passed.
C5_Witness ==
  /\ Len(dequeued) = 2
  /\ Len(completed) = 1
  /\ lastOutcome = "rejected"
  /\ now >= completedAt + processDelay

\* C6: a finished item has produced exactly one event, on its own socket:
\* an error if its inference failed, else the analysis result; an item in
\* flight has produced none, and the loop lives on.
C6_OneOutcomePerItem ==
  /\ processing = (loops # {})
  /\ \A l \in loops :
       IF l.stage = "infer" THEN l.out = <<>>
       ELSE /\ Len(l.out) = 1
            /\ l.out[1].socket = l.item.socket
            /\ l.out[1].event =
                 IF lastOutcome = "rejected" THEN "error" ELSE "analysis-result"

\* An item of the second client failed while a frame of the first waits.
C6_Witness ==
  \E l \in loops :
    /\ l.stage = "delay"
    /\ l.item.socket = "s2"
    /\ l.out = <<[socket |-> "s2", event |-> "error"]>>
    /\ queue # <<>>
    /\ queue[1].socket = "s1"

\* C7: an analysis that failed (inference rejected, or output that could not
\* be interpreted) leaves the scene memory as it was.
C7_FailedAnalysisKeepsMemory ==
  [][Len(completed') > Len(completed)
       /\ lastOutcome' \in {"rejected", "uninterpretable"} =>
       SceneMemory(context') = SceneMemory(context)]_vars

\* C8: the context window holds the last MAX_CONTEXT_FRAMES frames pushed,
\* oldest first, and building a request removes none of them.
C8_WindowIsLastPushed ==
  /\ Len(context.contextWindow) <= MAX_CONTEXT_FRAMES
  /\ LET ids == LastN(dequeued, MAX_CONTEXT_FRAMES)
     IN context.contextWindow = [i \in 1..Len(ids) |-> [id |-> ids[i]]]

\* More than MAX_CONTEXT_FRAMES frames were pushed.
C8_Witness ==
  /\ Len(dequeued) >= MAX_CONTEXT_FRAMES + 2
  /\ Len(context.contextWindow) = MAX_CONTEXT_FRAMES

\* ------------------------------------------------------------------------
\* Properties of the rate limiter and of the parser (C9, C10)
\* ------------------------------------------------------------------------
\* C9: two samples delivered one after the other are at least frameInterval
\* apart, whatever the callback does.
C9_AcceptedSamplesSpaced == minGap < 0 \/ minGap >= frameInterval

\* Whether the cleaned text is a JSON object.
Recoverable(text) ==
  LET r == JSONparse(extractAndCleanJson(text)) IN r.ok /\ r.v.t = JObj(<<>>).t

\* C10: parseGeminiResponse throws for no text, and for a text that cannot
\* be recovered into JSON it returns the empty result with the failure
\* description.
C10_ParseNeverThrows ==
  pdone =>
    /\ ~pout.thrown
    /\ ~Recoverable(ptext) => pout.value = DegradedResult(now)
    /\ pout.caught => pout.value = DegradedResult(now)

\* A text that is JSON after cleaning, with a null array element: the
\* TypeError of the map is caught too.
C10_Witness == pdone /\ Recoverable(ptext) /\ pout.caught /\ ~pout.thrown

\* ------------------------------------------------------------------------
\* Properties of the merge step (C11, C12, C13)
\* ------------------------------------------------------------------------
Names(objs) == {objs[i].name : i \in DOMAIN objs}

\* The last object of objs with the name.
LastNamed(objs, name) ==
  objs[CHOOSE i \in DOMAIN objs :
         /\ objs[i].name = name
         /\ \A j \in DOMAIN objs : objs[j].name = name => j <= i]

\* C11: no two objects of the memory have the same name, and every object
\* of the analysis just merged has its one entry, with the position and
\* confidence of its last occurrence and lastSeenAt the merge time.
C11_ObjectNamesUnique ==
  LET mem == context.recentObjects IN
  /\ \A i, j \in DOMAIN mem : mem[i].name = mem[j].name => i = j
  /\ merges > 0 =>
       \A n \in Names(manalysis.objects) :
         \E k \in DOMAIN mem :
           /\ mem[k].name = n
           /\ mem[k].lastSeenAt = now
           /\ mem[k].position = LastNamed(manalysis.objects, n).position
           /\ mem[k].confidence = LastNamed(manalysis.objects, n).confidence
  /\ merges > 0 =>
       \A k \in DOMAIN mem :
         mem[k].name \in Names(mprev.recentObjects) \cup Names(manalysis.objects)

\* A merge of an analysis that names an object twice, the object being in
\* the memory already with another confidence.
C11_Witness ==
  /\ merges > 1
  /\ \E i, j \in DOMAIN manalysis.objects :
       /\ i < j
       /\ manalysis.objects[i].name = manalysis.objects[j].name
       /\ \E k \in DOMAIN mprev.recentObjects :
            /\ mprev.recentObjects[k].name = manalysis.objects[j].name
            /\ mprev.recentObjects[k].confidence # manalysis.objects[j].confidence
            /\ mprev.recentObjects[k].lastSeenAt < now

\* C12: after a merge at time now, an object the merged analysis does not
\* name is in the memory exactly if now - lastSeenAt <= OBJECT_MEMORY_DURATION
\* (an object of exactly that age is kept).
C12_PresentIffWithinTTL ==
  merges > 0 =>
    /\ \A k \in DOMAIN context.recentObjects :
         now - context.recentObjects[k].lastSeenAt <= OBJECT_MEMORY_DURATION
    /\ \A k \in DOMAIN mprev.recentObjects :
         LET o == mprev.recentObjects[k] IN
         o.name \notin Names(manalysis.objects) =>
           (o.name \in Names(context.recentObjects)
              <=> now - o.lastSeenAt <= OBJECT_MEMORY_DURATION)

\* C13: the action log has at most MaxRecentActions entries; after a merge it
\* is the end of the previous log followed by the actions of the analysis in
\* their order, stamped with the merge time.
C13_ActionLogBounded ==
  LET log == context.recentActions
      all == mprev.recentActions \o manalysis.actions
      drop == Len(all) - Len(log)
  IN /\ Len(log) <= MaxRecentActions
     /\ merges > 0 =>
          /\ Len(log) = IF Len(all) < MaxRecentActions THEN Len(all) ELSE MaxRecentActions
          /\ \A i \in DOMAIN log : log[i] = all[i + drop]
          /\ \A i \in DOMAIN log :
               i + drop > Len(mprev.recentActions) => log[i].timestamp = now

\* A single merge carrying more actions than the log holds, onto a log that
\* is not empty.
C13_Witness ==
  /\ merges > 1
  /\ mprev.recentActions # <<>>
  /\ Len(manalysis.actions) > MaxRecentActions
  /\ Len(context.recentActions) = MaxRecentActions

\* ------------------------------------------------------------------------
\* Properties of the voice commands and of the readers (C14, C15, C19)
\* ------------------------------------------------------------------------
\* C14: only a merge or clearContext changes the scene memory: a voice
\* command and its reply, a health request, a frame being enqueued, evicted
\* or dequeued into the context window, the delay and the clock leave it as
\* it was.
C14_OnlyMergeWritesMemory ==
  [][SceneMemory(context') # SceneMemory(context)
       => (lastMerged' # lastMerged \/ resets' # resets)]_vars

\* A voice command has been answered while the memory held an object and
\* the full queue had evicted an item.
C14_Witness ==
  /\ \E i \in DOMAIN vlog : vlog[i].outcome = "resolved"
  /\ context.recentObjects # <<>>
  /\ context.contextWindow # <<>>
  /\ Len(queue) = maxQueueSize
  /\ queue[1].frame.id > Len(dequeued) + 1

\* C15: every voice command makes one inference call; while it is pending
\* nothing has been sent, and afterwards exactly one event has been sent to
\* its caller: voice-response if the call resolved, error if it rejected.
C15_OneReplyPerCommand ==
  \A i \in DOMAIN vlog :
    LET e == vlog[i] IN
    /\ e.calls = 1
    /\ (e.outcome = "pending") <=> (\E v \in voice : v.id = i)
    /\ e.outcome = "pending" => e.out = <<>>
    /\ e.outcome = "resolved" =>
         e.out = <<[socket |-> e.socket, event |-> "voice-response"]>>
    /\ e.outcome = "rejected" => e.out = <<[socket |-> e.socket, event |-> "error"]>>

\* One command has been answered and another has failed.
C15_Witness ==
  /\ \E i \in DOMAIN vlog : vlog[i].outcome = "resolved"
  /\ \E i \in DOMAIN vlog : vlog[i].outcome = "rejected"

\* C19: for every client at most one call of generateContent is in flight,
\* its frame analyses and its voice commands counted together.
C19_OneCallInFlight ==
  \A s \in Sockets :
    Cardinality({l \in InFlight : l.item.socket = s})
      + Cardinality({v \in voice : v.socket = s}) <= 1

\* ------------------------------------------------------------------------
\* Properties of the reset (C16, C17)
\* ------------------------------------------------------------------------
ClearedMemory(ctx) ==
  /\ ctx.recentObjects = <<>>
  /\ ctx.recentActions = <<>>
  /\ ctx.sceneDescription = Undefined

\* C16: a reset with items pending leaves the queue empty and the scene
\* memory cleared in that step, and no item that was pending is dequeued
\* afterwards.
C16_ResetEmptiesQueue ==
  [][/\ (resets' # resets /\ queue # <<>>) =>
          (queue' = <<>> /\ ClearedMemory(context'))
     /\ dequeued' # dequeued => dequeued'[Len(dequeued')] \notin pendingThen']_vars

\* C17: the result of a call that was in flight at the reset is not merged:
\* when it returns the scene memory stays as it is.
C17_StaleResultDiscarded ==
  [][(/\ lastMerged' # lastMerged
      /\ \E i \in 1..staleUpTo : dequeued[i] = lastMerged')
       => SceneMemory(context') = SceneMemory(context)]_vars

\* ------------------------------------------------------------------------
\* Progress of the queue loop (C18)
\* ------------------------------------------------------------------------
\* C18: every item whose inference call is in flight is eventually finished,
\* with a result or as a failed item, so that the loop can go on to the
\* items behind it.
C18_LoopMovesOn ==
  \A id \in 1..MaxFramesHang :
    (\E l \in InFlight : l.item.frame.id = id)
      ~> (\E i \in DOMAIN completed : completed[i] = id)

\* ------------------------------------------------------------------------
\* The context window and the accepted samples (C20)
\* ------------------------------------------------------------------------
\* C20: the context window holds the last MAX_CONTEXT_FRAMES frames the
\* server has received (the samples the rate limiter accepted), oldest first,
\* whatever became of them in the queue.
C20_WindowHoldsAccepted ==
  LET arrived == [i \in 1..(nextId - 1) |-> i]
      ids == LastN(arrived, MAX_CONTEXT_FRAMES)
  IN context.contextWindow = [i \in 1..Len(ids) |-> [id |-> ids[i]]]

\* ------------------------------------------------------------------------
\* Properties of the parser on well-formed outputs (C21, C24)
\* ------------------------------------------------------------------------
\* The characters of a parsed string, the newline escape read as the newline.
Unescaped(chars) ==
  LET escs == {i \in 1..Len(chars) : chars[i] = ESC}
  IN DropAt([i \in 1..Len(chars) |->
               IF (i - 1) \in escs /\ chars[i] = "n" THEN NL ELSE chars[i]], escs)

\* What parse is to return for the analysis a at time t.
SameFields(a, t) ==
  [objects |-> [i \in 1..Len(a.objects) |->
                  [name |-> a.objects[i].name, position |-> a.objects[i].position,
                   confidence |-> NumTenths(a.objects[i].confidence), lastSeenAt |-> t]],
   actions |-> [i \in 1..Len(a.actions) |->
                  [description |-> a.actions[i].description,
                   objects |-> a.actions[i].objects,
                   confidence |-> NumTenths(a.actions[i].confidence), timestamp |-> t]],
   sceneDescription |-> a.sceneDescription,
   relationships |-> a.relationships,
   timestamp |-> t]

\* The value parse returned, its strings unescaped.
Readable(v) ==
  [objects |-> [i \in 1..Len(v.objects) |->
                  [v.objects[i] EXCEPT !.name = Unescaped(@)]],
   actions |-> [i \in 1..Len(v.actions) |->
                  [v.actions[i] EXCEPT
                     !.description = Unescaped(@),
                     !.objects = [k \in 1..Len(@) |-> Unescaped(@[k])]]],
   sceneDescription |-> Unescaped(v.sceneDescription),
   relationships |-> [i \in 1..Len(v.relationships) |->
                        [object1 |-> Unescaped(v.relationships[i].object1),
                         object2 |-> Unescaped(v.relationships[i].object2),
                         relationship |-> Unescaped(v.relationships[i].relationship)]],
   timestamp |-> v.timestamp]

\* Confidences in tenths: [0,1] is 0..10.
InUnitRange(c) == c \in 0..10

\* C24: every object and action parse returned, and every one held in the
\* scene memory, has a confidence within [0,1], whatever number the text
\* carried.
C24_ConfidenceInUnitRange ==
  /\ \A i \in DOMAIN pout.value.objects : InUnitRange(pout.value.objects[i].confidence)
  /\ \A i \in DOMAIN pout.value.actions : InUnitRange(pout.value.actions[i].confidence)
  /\ \A i \in DOMAIN context.recentObjects : InUnitRange(context.recentObjects[i].confidence)
  /\ \A i \in DOMAIN context.recentActions : InUnitRange(context.recentActions[i].confidence)

\* C21: for the JSON text of an analysis of the schema, parse returns the
\* objects, actions, relationships and sceneDescription of that analysis,
\* every field value unchanged.
C21_RoundTrip ==
  pdone /\ psrc # <<>> => Readable(pout.value) = SameFields(psrc[1], now)

\* ------------------------------------------------------------------------
\* Properties of the frame extractor (C22, C27)
\* ------------------------------------------------------------------------
\* C22: the sample start() offers to the rate limiter is accepted at once,
\* whatever the clock reads (delivered to the callback, or taken without one),
\* and no second sample is delivered less than frameInterval after it.
C22_FirstSampleAccepted ==
  /\ [][~isActive /\ isActive' /\ video =>
          IF hasCallback THEN delivered' = delivered + 1 ELSE lastFrameTime' = xnow]_vars
  /\ [][delivered = 1 /\ delivered' = 2 => xnow - lastDeliveredAt >= frameInterval]_vars

\* ------------------------------------------------------------------------
\* Progress of the request queue (C26)
\* ------------------------------------------------------------------------
Range(seq) == {seq[i] : i \in DOMAIN seq}

QueuedIds == {queue[i].frame.id : i \in DOMAIN queue}

\* The frame is waiting in the queue or its inference is in flight.
Pending(id) == id \in QueuedIds \/ \E l \in InFlight : l.item.frame.id = id

\* The frame was processed, or it was evicted before it was dequeued.
Settled(id) ==
  \/ id \in Range(completed)
  \/ id < nextId /\ id \notin QueuedIds /\ id \notin Range(dequeued)

\* C26: with an inference service that always answers, every enqueued item is
\* eventually evicted or dequeued and processed; the loop is never idle while
\* the queue is non-empty, and it becomes idle once the queue has drained.
C26_NoItemStranded ==
  /\ [](~processing => queue = <<>>)
  /\ \A id \in 1..MaxFramesLive : Pending(id) ~> Settled(id)
  /\ processing ~> (~processing \/ queue # <<>>)

\* Every frame was settled, one of them by eviction, and the loop is idle.
C26_Witness ==
  /\ nextId > MaxFramesLive
  /\ ~processing
  /\ \A id \in 1..MaxFramesLive : Settled(id)
  /\ \E id \in 1..MaxFramesLive : id \notin Range(dequeued)

\* ------------------------------------------------------------------------
\* Properties of concurrent sessions (C25)
\* ------------------------------------------------------------------------
\* C25: what a session's analysis is computed from is that session's own:
\* while the inference for a frame is in flight, every frame of the context
\* window sent with it came from the same connection and the scene memory
\* in its prompt was last written by an analysis of that connection; and a
\* frame arriving at a full queue evicts no frame of another connection.
C25_SessionsIsolated ==
  /\ [](\A l \in InFlight :
          /\ \A i \in DOMAIN context.contextWindow :
               owner[context.contextWindow[i].id] = l.item.socket
          /\ lastMerged # 0 => owner[lastMerged] = l.item.socket)
  /\ [][nextId' # nextId /\ Len(queue) = maxQueueSize =>
          queue[1].socket = owner'[nextId]]_vars

\* ------------------------------------------------------------------------
\* Properties of the scene memory as it is read (C23)
\* ------------------------------------------------------------------------
\* C23: no prompt built for a voice command lists an object seen more than
\* OBJECT_MEMORY_DURATION before, however long ago the last merge was.
C23_PromptHasNoStaleObject ==
  \A i \in DOMAIN vlog :
    \A k \in DOMAIN vlog[i].prompt.objects :
      vlog[i].prompt.objects[k].age <= OBJECT_MEMORY_DURATION

\* C27: whatever start(), stop() and dispose() calls were made, at most one
\* extraction loop is alive (scheduled as an animation frame or awaiting the
\* callback), and no two samples are delivered within one frameInterval.
C27_AtMostOneLoop ==
  /\ rafs + Len(awaiting) <= 1
  /\ minGap < 0 \/ minGap >= frameInterval

\* ------------------------------------------------------------------------
\* Properties of the client's processing timeout (C28)
\* ------------------------------------------------------------------------
\* C28: a timeout is reported for a frame only if no result and no error
\* had arrived within FrameTimeoutMs of sending it; no timer stays armed for
\* a frame whose result arrived, nor for a frame sent before the latest one.
C28_TimeoutOnlyWithoutReply ==
  /\ \A i \in DOMAIN reports :
       \/ reports[i].repliedAt < 0
       \/ reports[i].repliedAt > sentAt[reports[i].frame] + FrameTimeoutMs
  /\ \A t \in timers : repliedAt[t.frame] < 0 /\ t.frame = Len(sentAt)

\* ------------------------------------------------------------------------
\* Properties of the worker and of the session (C29, C30)
\* ------------------------------------------------------------------------
\* C29: between START_PROCESSING and STOP_PROCESSING the loop stays
\* scheduled, also after it found the buffer empty, and every frame in the
\* buffer is eventually posted or superseded by a newer frame that is posted.
C29_AddedFrameIsPosted ==
  /\ [](wstarted => wtimers >= 1)
  /\ \A f \in 1..MaxAdded :
       (wstarted /\ f \in Range(frameBuffer))
         ~> (~wstarted \/ \E i \in DOMAIN posted : posted[i] >= f)

\* C30: isConnected is true exactly when the current WebSocket is open, and
\* no sendVideoFrame on an open connection is rejected.
C30_ConnectedIffOpen ==
  /\ isConnected <=> CurrentOpen
  /\ \A i \in DOMAIN sends : sends[i].open => ~sends[i].rejected

====
